---- MODULE Spec2Model ----
(***************************************************************************)
(* Model of the PDF merge pipeline of src/services/historyService.ts       *)
(* (detectImageType, processImage, mergeFiles).                            *)
(*                                                                         *)
(* Byte strings are sequences of numbers.  The first bytes of an image or  *)
(* PDF file are its real signature; the numbers after the signature stand  *)
(* for the header fields of the container (pixel width, pixel height, or   *)
(* the page sizes of a PDF) and are read by the external decoders only.    *)
(***************************************************************************)
EXTENDS Integers, Sequences, FiniteSets, TLC

VARIABLES
    \* --- detectImageType applied to one byte string
    sBytes,            \* the argument
    sResult,           \* "pending" before the call, then the value returned
    \* --- processImage applied to one input
    pIn,               \* [isFile, bytes]: a File or a Uint8Array
    pLevel,            \* CompressionLevel
    pOut,              \* <<>> before the call, then <<outcome>>
    \* --- one mergeFiles invocation
    files,             \* UploadedFile[] passed to mergeFiles
    compressionLevel,  \* CompressionLevel passed to mergeFiles
    pc,                \* position of the async function
    i,                 \* loop index (0-based, as in the code)
    mergedPdf,         \* pages of the PDFDocument being built
    log,               \* calls of onProgress, of the external services and of
                       \* console.error in the catch block, in the order made
    cur,               \* locals of the current iteration
    result,            \* what the promise settled with
    \* --- the App component (src/App.tsx)
    appFiles,          \* the files state: ids of the UploadedFile objects, in order
    objects,           \* the UploadedFile objects by id (shared by every array
                       \* that holds them and mutated in place)
    status,            \* MergeStatus
    downloadUrl,       \* <<>> for null, else <<the list the document was made from>>
    mergedBlob,        \* <<>> for null, else <<the list the document was made from>>
    convertingCount,   \* the convertingCount state
    effectPending,     \* files changed and the [files] effect has not run yet
    runs,              \* the processConversions calls, scheduled or running
    merge,             \* the handleMerge call in flight
    lastCall,          \* what the last handleMerge call found and did
    orphaned,          \* id of the file a conversion last completed for after it
                       \* had left files, 0 when there was none
    \* --- the FileList component (src/components/FileList.tsx)
    draggedItemIndex,  \* -1 for null
    lastReorder,       \* the last onReorder call FileList made and the list before it
    \* --- the history service (src/services/historyService.ts, lines 1-39)
    storage,           \* localStorage[STORAGE_KEY]: <<>> when absent, else <<items>>
    clock,             \* Date.now(), the source of the item ids
    historyCalls,      \* number of calls made to the service
    lastHistoryCall    \* the last call: its argument, what was stored before, what it returned

sniffVars == <<sBytes, sResult>>
imageVars == <<pIn, pLevel, pOut>>
mergeVars == <<files, compressionLevel, pc, i, mergedPdf, log, cur, result>>
appVars == <<appFiles, objects, status, downloadUrl, mergedBlob, convertingCount,
             effectPending, runs, merge, lastCall, orphaned>>
fileListVars == <<draggedItemIndex, lastReorder>>
historyVars == <<storage, clock, historyCalls, lastHistoryCall>>
vars == <<sBytes, sResult, pIn, pLevel, pOut, files, compressionLevel, pc, i,
          mergedPdf, log, cur, result, appFiles, objects, status, downloadUrl,
          mergedBlob, convertingCount, effectPending, runs, merge, lastCall, orphaned,
          draggedItemIndex, lastReorder, storage, clock, historyCalls, lastHistoryCall>>

------------------------------------------------------------------------------
(* Bounds of the model *)

\* longest byte string given to detectImageType
MaxLen == 5
\* longest file list given to mergeFiles
MaxFiles == 2
\* most pages of a source PDF
MaxPages == 2
\* most files uploaded to the App in one behaviour
MaxUploads == 2
\* most calls made to the history service in one behaviour
MaxHistoryCalls == 3
\* longest file list FileList reorders
MaxList == 4

------------------------------------------------------------------------------
(* Bytes *)

\* bytes[k] of a Uint8Array, 0-based as in the code; undefined (-1) out of range
At(bytes, k) == IF k + 1 <= Len(bytes) THEN bytes[k + 1] ELSE -1

PNG_SIG == <<137, 80, 78, 71>>
JPG_SIG == <<255, 216>>
RIFF_SIG == <<82, 73, 70, 70>>
PDF_SIG == <<37, 80, 68, 70>>
ZIP_SIG == <<80, 75, 3, 4>>
HEIC_SIG == <<0, 0, 0, 24>>

HasPrefix(bytes, sig) ==
    Len(bytes) >= Len(sig) /\ SubSeq(bytes, 1, Len(sig)) = sig

------------------------------------------------------------------------------
(* detectImageType *)

\* the sniffer without its length guard
detectImageType_NoLengthGuard(bytes) ==
    IF At(bytes, 0) = 137 /\ At(bytes, 1) = 80 /\ At(bytes, 2) = 78 /\ At(bytes, 3) = 71
    THEN "png"
    ELSE IF At(bytes, 0) = 255 /\ At(bytes, 1) = 216
         THEN "jpg"
         ELSE "unknown"

detectImageType(bytes) ==
    IF Len(bytes) < 4 THEN "unknown"
    ELSE IF At(bytes, 0) = 137 /\ At(bytes, 1) = 80 /\ At(bytes, 2) = 78 /\ At(bytes, 3) = 71
         THEN "png"
         ELSE IF At(bytes, 0) = 255 /\ At(bytes, 1) = 216
              THEN "jpg"
              ELSE "unknown"

------------------------------------------------------------------------------
(* The browser's image decoder and encoder (external to the repository) *)

Levels == {"none", "normal", "high"}

\* signature of the container the browser recognises: "none" when it has none
Container(bytes) ==
    IF HasPrefix(bytes, PNG_SIG) THEN "png"
    ELSE IF HasPrefix(bytes, JPG_SIG) THEN "jpg"
    ELSE IF HasPrefix(bytes, RIFF_SIG) THEN "webp"
    ELSE "none"

SigLen(bytes) == IF Container(bytes) = "jpg" THEN 2 ELSE 4

\* img.src = url: onload with the pixel size, or onerror
ImageDecode(bytes) ==
    IF /\ Container(bytes) # "none"
       /\ Len(bytes) = SigLen(bytes) + 2
       /\ bytes[SigLen(bytes) + 1] >= 1
       /\ bytes[SigLen(bytes) + 2] >= 1
    THEN [ok |-> TRUE, w |-> bytes[SigLen(bytes) + 1], h |-> bytes[SigLen(bytes) + 2]]
    ELSE [ok |-> FALSE, w |-> 0, h |-> 0]

\* canvas.toBlob(cb, mimeType, quality): the bytes of a canvas of w x h pixels
Encoded(mimeType, w, h) ==
    IF mimeType = "image/png" THEN PNG_SIG \o <<w, h>> ELSE JPG_SIG \o <<w, h>>

------------------------------------------------------------------------------
(* processImage *)

\* the fast path without the test that the input is the uploaded File
FastPath_AnyInput(file, level) ==
    level = "none" /\ detectImageType(file.bytes) # "unknown"

\* level === 'none' && file instanceof File, and the sniffed type is known
FastPath(file, level) ==
    level = "none" /\ file.isFile /\ detectImageType(file.bytes) # "unknown"

MaxDimension(level) ==
    IF level = "high" THEN 1500 ELSE IF level = "normal" THEN 2500 ELSE 0

\* maxDimension * a / b (or maxDimension / (b / a)) stored in a canvas attribute.
\* The code computes it in doubles through ratio = width / height and the
\* attribute is an unsigned integer, so the fraction is dropped; when the exact
\* quotient is an integer the rounding of the two double operations can leave
\* the value just below it (1500 * (90 / 2500) = 53.99999999999999 -> 53).
\* With a = b the ratio is exactly 1 and the result is exactly maxDimension.
ScaledEdge(maxDimension, a, b) ==
    LET q == (maxDimension * a) \div b IN
    IF a = b THEN {maxDimension}
    ELSE IF (maxDimension * a) % b = 0 THEN {q, q - 1}
    ELSE {q}

\* the resize with the two branches of the orientation test exchanged
CanvasSize_Swapped(w, h, level) ==
    LET maxDimension == MaxDimension(level) IN
    IF maxDimension > 0 /\ (w > maxDimension \/ h > maxDimension)
    THEN IF w > h
         THEN {[w |-> e, h |-> maxDimension] : e \in ScaledEdge(maxDimension, w, h)}
         ELSE {[w |-> maxDimension, h |-> e] : e \in ScaledEdge(maxDimension, h, w)}
    ELSE {[w |-> w, h |-> h]}

\* canvas.width / canvas.height after the resize of an image of w x h pixels:
\* the sizes the canvas can get
CanvasSize(w, h, level) ==
    LET maxDimension == MaxDimension(level) IN
    IF maxDimension > 0 /\ (w > maxDimension \/ h > maxDimension)
    THEN IF w > h
         THEN {[w |-> maxDimension, h |-> e] : e \in ScaledEdge(maxDimension, h, w)}
         ELSE {[w |-> e, h |-> maxDimension] : e \in ScaledEdge(maxDimension, w, h)}
    ELSE {[w |-> w, h |-> h]}

\* the encoder choice without the PNG default of level none
TargetMime_AlwaysJpeg(level) == "image/jpeg"

\* mimeType handed to canvas.toBlob
TargetMime(level) ==
    IF level = "high" THEN "image/jpeg"
    ELSE IF level = "normal" THEN "image/jpeg"
    ELSE "image/png"

\* quality handed to canvas.toBlob, in hundredths (0.5 -> 50, 0.75 -> 75, 1.0 -> 100)
TargetQuality(level) ==
    IF level = "high" THEN 50 ELSE IF level = "normal" THEN 75 ELSE 100

Resolved(path, data, isPng, cw, ch, mime, quality) ==
    [ok |-> TRUE, err |-> "", path |-> path, data |-> data, isPng |-> isPng,
     canvasW |-> cw, canvasH |-> ch, mime |-> mime, quality |-> quality]

Rejected(err, cw, ch, mime, quality) ==
    [ok |-> FALSE, err |-> err, path |-> "general", data |-> <<>>, isPng |-> FALSE,
     canvasW |-> cw, canvasH |-> ch, mime |-> mime, quality |-> quality]

\* what the promise of the general path settles with once the image has
\* loaded into a canvas of size c: the browser may hand out no 2d context and
\* toBlob may deliver no blob (it never delivers one for a canvas without pixels)
OnLoad(c, level) ==
    LET mimeType == TargetMime(level)
        quality == TargetQuality(level)
    IN  {Rejected("Browser canvas context not available", c.w, c.h, "", 0),
         Rejected("Failed to process image", c.w, c.h, mimeType, quality)}
        \cup
        (IF c.w >= 1 /\ c.h >= 1
         THEN {Resolved("general", Encoded(mimeType, c.w, c.h),
                        mimeType = "image/png", c.w, c.h, mimeType, quality)}
         ELSE {})

\* the Promise of the general path: decode, resize, draw, re-encode
GeneralPath(file, level) ==
    LET img == ImageDecode(file.bytes) IN
    IF ~img.ok
    THEN {Rejected("Failed to load image for processing.", -1, -1, "", 0)}
    ELSE UNION {OnLoad(c, level) : c \in CanvasSize(img.w, img.h, level)}

\* processImage(file, level): the set of outcomes the promise can settle with
processImage(file, level) ==
    IF FastPath(file, level)
    THEN {Resolved("fast", file.bytes, detectImageType(file.bytes) = "png", -1, -1, "", 0)}
    ELSE GeneralPath(file, level)

------------------------------------------------------------------------------
(* Idle values of the three groups of variables *)

SniffIdle == sBytes = <<>> /\ sResult = "pending"
ImageIdle == pIn = [isFile |-> TRUE, bytes |-> <<>>] /\ pLevel = "none" /\ pOut = <<>>
MergeIdle ==
    /\ files = <<>> /\ compressionLevel = "none" /\ pc = "off" /\ i = 0
    /\ mergedPdf = <<>> /\ log = <<>>
    /\ cur = [stage |-> "none"] /\ result = [kind |-> "none"]

\* no handleMerge call in flight
NoMerge == [pc |-> "idle", fileList |-> <<>>, snapshot |-> <<>>, i |-> 0, outcome |-> "none"]

\* the App component as mounted: the useState initial values
AppMounted ==
    /\ appFiles = <<>> /\ objects = <<>>
    /\ status = [isProcessing |-> FALSE, message |-> "", progress |-> 0]
    /\ downloadUrl = <<>> /\ mergedBlob = <<>>
    /\ convertingCount = 0 /\ effectPending = FALSE
    /\ runs = <<>>
    /\ merge = NoMerge
    /\ lastCall = [outcome |-> "none", empty |-> FALSE, converting |-> FALSE, changed |-> FALSE]
    /\ orphaned = 0

\* the FileList component as mounted, before any onReorder call
FileListMounted ==
    /\ draggedItemIndex = -1
    /\ lastReorder = [before |-> <<>>, fromIndex |-> 0, toIndex |-> 0]

\* the history service before any call, nothing stored
HistoryIdle ==
    /\ storage = <<>> /\ clock = 0 /\ historyCalls = 0
    /\ lastHistoryCall = [op |-> "none"]

------------------------------------------------------------------------------
(* Specification SpecSniff: detectImageType on every short byte string *)

SniffAlphabet == {0, 71, 78, 80, 137, 216, 255}

ByteStrings(n) == UNION {[1..k -> SniffAlphabet] : k \in 0..n}

InitSniff ==
    /\ sBytes \in ByteStrings(MaxLen)
    /\ sResult = "pending"
    /\ ImageIdle /\ MergeIdle /\ AppMounted /\ FileListMounted /\ HistoryIdle

Sniff ==
    /\ sResult = "pending"
    /\ sResult' = detectImageType(sBytes)
    /\ UNCHANGED <<sBytes, imageVars, mergeVars, appVars,
                   fileListVars, historyVars>>

NextSniff == Sniff

SpecSniff == InitSniff /\ [][NextSniff]_vars

------------------------------------------------------------------------------
(* Specification SpecImage: processImage on sample inputs *)

PixelSizes == {1, 90, 1000, 1500, 1501, 2000, 2500, 2501, 4000}

\* image files: a signature followed by the pixel size, and damaged files
ImageBytes ==
    {sig \o <<w, h>> : sig \in {PNG_SIG, JPG_SIG, RIFF_SIG}, w \in PixelSizes, h \in PixelSizes}
    \cup {PNG_SIG, JPG_SIG, JPG_SIG \o <<255>>, HEIC_SIG \o <<1000, 1000>>, <<>>}

InitImage ==
    /\ pIn \in [isFile : BOOLEAN, bytes : ImageBytes]
    /\ pLevel \in Levels
    /\ pOut = <<>>
    /\ SniffIdle /\ MergeIdle /\ AppMounted /\ FileListMounted /\ HistoryIdle

CallProcessImage ==
    /\ pOut = <<>>
    /\ \E r \in processImage(pIn, pLevel) : pOut' = <<r>>
    /\ UNCHANGED <<pIn, pLevel, sniffVars, mergeVars, appVars,
                   fileListVars, historyVars>>

NextImage == CallProcessImage

SpecImage == InitImage /\ [][NextImage]_vars

------------------------------------------------------------------------------
(* pdf-lib (external to the repository) *)

\* a PDF file of k pages: page j measures 300*j x 300 points
RECURSIVE PdfPageSizes(_)
PdfPageSizes(k) == IF k = 0 THEN <<>> ELSE PdfPageSizes(k - 1) \o <<300 * k, 300>>

PdfBytes(k) == PDF_SIG \o PdfPageSizes(k)

\* PDFDocument.load(arrayBuffer) then getPages(): throws on a file it cannot parse
PDFLoad(bytes) ==
    IF HasPrefix(bytes, PDF_SIG) /\ (Len(bytes) - 4) % 2 = 0
    THEN [ok |-> TRUE,
          pages |-> [j \in 1..((Len(bytes) - 4) \div 2) |->
                        [w |-> bytes[4 + 2 * j - 1], h |-> bytes[4 + 2 * j]]]]
    ELSE [ok |-> FALSE, pages |-> <<>>]

\* embedPng / embedJpg need at least a header carrying the pixel size; whether
\* the codec-specific structure then parses is decided by the library (oracle)
HasImageHeader(bytes) ==
    Container(bytes) # "none" /\ Len(bytes) = SigLen(bytes) + 2

EmbedOk(codec, bytes, oracle) == HasImageHeader(bytes) /\ oracle[codec]

\* image.scale(1)
ImageSize(bytes) == [w |-> bytes[SigLen(bytes) + 1], h |-> bytes[SigLen(bytes) + 2]]

\* mergedPdf.save(): with the default options (addDefaultPage = true) pdf-lib
\* adds one blank page to a document that has none before it serializes it
\* (PageSizes.A4 = [595.28, 841.89], nothing drawn on it)
BlankPage ==
    [input |-> -1, srcPage |-> 0, kind |-> "blank", iw |-> 0, ih |-> 0,
     width |-> 59528, height |-> [num |-> 84189, den |-> 1],
     draw |-> [x |-> 0, y |-> 0, width |-> 0, height |-> [num |-> 0, den |-> 1]]]

Serialized(doc) == IF Len(doc) = 0 THEN <<BlankPage>> ELSE doc

------------------------------------------------------------------------------
(* mergeFiles *)

\* the files the model draws the input list from
UploadedFile(name, type, bytes, blob) ==
    [name |-> name, type |-> type, bytes |-> bytes, convertedBlob |-> blob]

\* convertedBlob is <<>> when absent and <<bytes>> when present
Catalogue ==
    {UploadedFile("doc.pdf", "pdf", PdfBytes(k), <<>>) : k \in 0..MaxPages}
    \cup
    {UploadedFile("bad.pdf", "pdf", <<37, 80, 68>>, <<>>),
     UploadedFile("scan.pdf", "pdf", PdfBytes(1), <<PNG_SIG \o <<800, 600>>>>),
     UploadedFile("b.png", "image", PNG_SIG \o <<600, 300>>, <<>>),
     UploadedFile("c.jpg", "image", JPG_SIG \o <<4000, 2000>>, <<>>),
     UploadedFile("d.webp", "image", RIFF_SIG \o <<3000, 3000>>, <<>>),
     UploadedFile("e.png", "image", PNG_SIG, <<>>),
     UploadedFile("f.heic", "image", HEIC_SIG \o <<1000, 1000>>, <<>>),
     UploadedFile("f.heic", "image", HEIC_SIG \o <<1000, 1000>>, <<JPG_SIG \o <<1000, 1000>>>>),
     UploadedFile("g.docx", "docx", ZIP_SIG, <<>>),
     UploadedFile("i.docx", "docx", PNG_SIG \o <<600, 300>>, <<>>),
     UploadedFile("g.docx", "docx", ZIP_SIG, <<PNG_SIG \o <<1588, 2246>>>>),
     UploadedFile("h.xlsx", "xlsx", ZIP_SIG, <<PNG_SIG \o <<2800, 900>>>>)}

FileLists == UNION {[1..n -> Catalogue] : n \in 0..MaxFiles}

\* Math.round(((i + 1) / totalFiles) * 100) with i one too small
Progress_OffByOne(idx, totalFiles) == (200 * idx + totalFiles) \div (2 * totalFiles)

\* Math.round(((i + 1) / totalFiles) * 100): Math.round rounds halves up (the
\* double product differs from the exact one only next to a half, which needs
\* totalFiles to be a multiple of 8)
Progress(idx, totalFiles) == (200 * (idx + 1) + totalFiles) \div (2 * totalFiles)

\* the loop test that leaves the last file out
LoopTest_SkipLast(idx, totalFiles) == idx < totalFiles - 1

\* i < totalFiles
LoopTest(idx, totalFiles) == idx < totalFiles

\* inputData that is always the uploaded File
InputData_AlwaysFile(fileData) == [isFile |-> TRUE, bytes |-> fileData.bytes]

\* inputData: the converted bytes when present, else the uploaded File
InputData(fileData) ==
    IF fileData.convertedBlob # <<>>
    THEN [isFile |-> FALSE, bytes |-> fileData.convertedBlob[1]]
    ELSE [isFile |-> TRUE, bytes |-> fileData.bytes]

\* const TARGET_WIDTH = 595.28, in hundredths of a point
TARGET_WIDTH == 59528

\* scaleFactor = width / TARGET_WIDTH, the inverse factor
ScaledHeight_Inverse(width, height) == [num |-> height * width, den |-> TARGET_WIDTH]

\* scaleFactor = TARGET_WIDTH / width; scaledHeight = height * scaleFactor:
\* the quotient height * TARGET_WIDTH / width in hundredths of a point, kept as
\* a fraction (the double the code computes is its nearest representable value)
ScaledHeight(width, height) == [num |-> height * TARGET_WIDTH, den |-> width]

\* mergedPdf.addPage([TARGET_WIDTH, scaledHeight]) followed by drawPage /
\* drawImage with { x: 0, y: 0, width: TARGET_WIDTH, height: scaledHeight }
AddPage(idx, j, kind, width, height) ==
    [input |-> idx, srcPage |-> j, kind |-> kind, iw |-> width, ih |-> height,
     width |-> TARGET_WIDTH, height |-> ScaledHeight(width, height),
     draw |-> [x |-> 0, y |-> 0, width |-> TARGET_WIDTH,
               height |-> ScaledHeight(width, height)]]

\* the pages of one source PDF added last page first
PdfPages_Reversed(idx, pages) ==
    [j \in 1..Len(pages) |->
        AddPage(idx, Len(pages) + 1 - j, "pdf",
                pages[Len(pages) + 1 - j].w, pages[Len(pages) + 1 - j].h)]

\* the pages one source PDF adds, in the order of embeddedPages.forEach
PdfPages(idx, pages) ==
    [j \in 1..Len(pages) |-> AddPage(idx, j, "pdf", pages[j].w, pages[j].h)]

\* the page one image adds
ImagePage(idx, size) == AddPage(idx, 1, "image", size.w, size.h)

InitMerge ==
    /\ files \in FileLists
    /\ compressionLevel \in Levels
    /\ pc = "idle"
    /\ i = 0
    /\ mergedPdf = <<>>
    /\ log = <<>>
    /\ cur = [stage |-> "none"]
    /\ result = [kind |-> "none"]
    /\ SniffIdle /\ ImageIdle /\ AppMounted /\ FileListMounted /\ HistoryIdle

\* PDFDocument.create(); totalFiles = files.length; i = 0
Start ==
    /\ pc = "idle"
    /\ pc' = "loop"
    /\ i' = 0
    /\ UNCHANGED <<files, compressionLevel, mergedPdf, log, cur, result, sniffVars, imageVars, appVars,
                   fileListVars, historyVars>>

\* top of the loop body: onProgress(processing message, progress)
ReportProgress ==
    /\ pc = "loop"
    /\ LoopTest(i, Len(files))
    /\ log' = Append(log, [op |-> "progress", kind |-> "processing", input |-> i,
                           number |-> i + 1, name |-> files[i + 1].name,
                           percent |-> Progress(i, Len(files))])
    /\ pc' = "try"
    /\ UNCHANGED <<files, compressionLevel, i, mergedPdf, cur, result, sniffVars, imageVars, appVars,
                   fileListVars, historyVars>>

\* the catch block that logs the error and goes on with the next file
Catch_SkipFile(entries, cause) ==
    /\ log' = log \o entries \o <<[op |-> "console.error", input |-> i, cause |-> cause]>>
    /\ i' = i + 1
    /\ pc' = "loop"
    /\ cur' = [stage |-> "none"]
    /\ UNCHANGED <<files, compressionLevel, mergedPdf, result, sniffVars, imageVars, appVars,
                   fileListVars, historyVars>>

\* catch (error): console.error(error); throw new Error(`... ${file.name} ...`).
\* entries are the calls made in the try block before the exception
Catch(entries, cause) ==
    /\ log' = log \o entries \o <<[op |-> "console.error", input |-> i, cause |-> cause]>>
    /\ result' = [kind |-> "error", name |-> files[i + 1].name, cause |-> cause]
    /\ pc' = "failed"
    /\ cur' = [stage |-> "none"]
    /\ UNCHANGED <<files, compressionLevel, i, mergedPdf, sniffVars, imageVars, appVars,
                   fileListVars, historyVars>>

\* the end of one iteration of the loop: pages appended, i++
EndIteration(entries, pages) ==
    /\ log' = log \o entries
    /\ mergedPdf' = mergedPdf \o pages
    /\ i' = i + 1
    /\ pc' = "loop"
    /\ cur' = [stage |-> "none"]
    /\ UNCHANGED <<files, compressionLevel, result, sniffVars, imageVars, appVars,
                   fileListVars, historyVars>>

\* fileData.type === 'pdf': load the source, embed its pages, add one page each
PdfBranch ==
    /\ pc = "try"
    /\ files[i + 1].type = "pdf"
    /\ LET src == PDFLoad(files[i + 1].bytes)
           call == [op |-> "load", input |-> i, ok |-> src.ok]
       IN  IF src.ok
           THEN EndIteration(<<call>>, PdfPages(i, src.pages))
           ELSE Catch(<<call>>, "PDFDocument.load")

\* else branch up to the await of processImage(inputData, compressionLevel)
Normalize ==
    /\ pc = "try"
    /\ files[i + 1].type # "pdf"
    /\ \E r \in processImage(InputData(files[i + 1]), compressionLevel) :
         LET call == [op |-> "processImage", input |-> i, arg |-> InputData(files[i + 1]),
                      ok |-> r.ok, out |-> r]
         IN  IF r.ok
             THEN /\ \E pngOk \in BOOLEAN, jpgOk \in BOOLEAN :
                        cur' = [stage |-> "embed", imageBytes |-> r.data, isPng |-> r.isPng,
                                oracle |-> [png |-> pngOk, jpg |-> jpgOk]]
                  /\ log' = Append(log, call)
                  /\ pc' = "embed"
                  /\ UNCHANGED <<files, compressionLevel, i, mergedPdf, result,
                                 sniffVars, imageVars, appVars,
                   fileListVars, historyVars>>
             ELSE Catch(<<call>>, r.err)

EmbedCall(codec) ==
    [op |-> "embed", input |-> i, codec |-> codec,
     ok |-> EmbedOk(codec, cur.imageBytes, cur.oracle)]

\* if (image) { ... addPage ... drawImage ... }
AddImagePage(call) ==
    EndIteration(<<call>>, <<ImagePage(i, ImageSize(cur.imageBytes))>>)

\* try { isPng ? embedPng(imageBytes) : embedJpg(imageBytes) }
EmbedFirst ==
    /\ pc = "embed"
    /\ LET call == EmbedCall(IF cur.isPng THEN "png" ELSE "jpg")
       IN  IF call.ok
           THEN AddImagePage(call)
           ELSE /\ log' = Append(log, call)
                /\ pc' = "retryJpg"
                /\ UNCHANGED <<files, compressionLevel, i, mergedPdf, cur, result,
                               sniffVars, imageVars, appVars,
                   fileListVars, historyVars>>

\* catch (e) { try { image = await mergedPdf.embedJpg(imageBytes) }
EmbedRetryJpg ==
    /\ pc = "retryJpg"
    /\ LET call == EmbedCall("jpg")
       IN  IF call.ok
           THEN AddImagePage(call)
           ELSE /\ log' = Append(log, call)
                /\ pc' = "retryPng"
                /\ UNCHANGED <<files, compressionLevel, i, mergedPdf, cur, result,
                               sniffVars, imageVars, appVars,
                   fileListVars, historyVars>>

\* catch { image = await mergedPdf.embedPng(imageBytes) } }
EmbedRetryPng ==
    /\ pc = "retryPng"
    /\ LET call == EmbedCall("png")
       IN  IF call.ok
           THEN AddImagePage(call)
           ELSE Catch(<<call>>, "embedPng")

\* after the loop: onProgress(finalize message, 100)
ReportFinalize ==
    /\ pc = "loop"
    /\ ~LoopTest(i, Len(files))
    /\ log' = Append(log, [op |-> "progress", kind |-> "finalize", input |-> Len(files),
                           number |-> 0, name |-> "", percent |-> 100])
    /\ pc' = "save"
    /\ UNCHANGED <<files, compressionLevel, i, mergedPdf, cur, result, sniffVars, imageVars, appVars,
                   fileListVars, historyVars>>

\* const pdfBytes = await mergedPdf.save(); return pdfBytes.
\* save() is outside the try block: its exception rejects the promise as it is
Save ==
    /\ pc = "save"
    /\ \/ /\ log' = Append(log, [op |-> "save", input |-> Len(files), ok |-> TRUE])
          /\ mergedPdf' = Serialized(mergedPdf)
          /\ result' = [kind |-> "bytes", pages |-> Serialized(mergedPdf)]
          /\ pc' = "done"
       \/ /\ log' = Append(log, [op |-> "save", input |-> Len(files), ok |-> FALSE])
          /\ result' = [kind |-> "error", name |-> "", cause |-> "save"]
          /\ pc' = "failed"
          /\ UNCHANGED mergedPdf
    /\ UNCHANGED <<files, compressionLevel, i, cur, sniffVars, imageVars, appVars,
                   fileListVars, historyVars>>

Next ==
    \/ Start
    \/ ReportProgress
    \/ PdfBranch
    \/ Normalize
    \/ EmbedFirst
    \/ EmbedRetryJpg
    \/ EmbedRetryPng
    \/ ReportFinalize
    \/ Save

Spec == InitMerge /\ [][Next]_vars

------------------------------------------------------------------------------
(* Properties of mergeFiles *)

LogIdx == 1..Len(log)

IsProcessing(e) == e.op = "progress" /\ e.kind = "processing"
IsFinalize(e) == e.op = "progress" /\ e.kind = "finalize"

\* p_i: the pages input fileData yields
PagesOf(fileData) ==
    IF fileData.type = "pdf" THEN Len(PDFLoad(fileData.bytes).pages) ELSE 1

RECURSIVE SumPages(_)
SumPages(list) ==
    IF list = <<>> THEN 0 ELSE PagesOf(Head(list)) + SumPages(Tail(list))

PagesFrom(doc, k) == {a \in 1..Len(doc) : doc[a].input = k}

\* C1: a successful mergeFiles returns a document of exactly sum(p_i) pages, the
\* pages of input i before those of input i+1, each input with its p_i pages
\* (stated for the non-empty lists handleMerge passes).
C1_PageCountAndOrder ==
    (result.kind = "bytes" /\ Len(files) >= 1) =>
        /\ Len(result.pages) = SumPages(files)
        /\ \A a, b \in 1..Len(result.pages) :
               a < b => result.pages[a].input <= result.pages[b].input
        /\ \A k \in 0..(Len(files) - 1) :
               Cardinality(PagesFrom(result.pages, k)) = PagesOf(files[k + 1])

\* What holds of the page count: the document built in memory has sum(p_i) pages
\* in input order, and the returned one differs only by the blank page of save()
PagesBuiltInOrder ==
    /\ pc \in {"loop", "save"} =>
          /\ Len(mergedPdf) = SumPages(SubSeq(files, 1, i))
          /\ \A a, b \in 1..Len(mergedPdf) :
                 a < b => mergedPdf[a].input <= mergedPdf[b].input
    /\ result.kind = "bytes" /\ SumPages(files) >= 1 => Len(result.pages) = SumPages(files)
    /\ result.kind = "bytes" /\ SumPages(files) = 0 => result.pages = <<BlankPage>>

\* C2: when the processing of input i fails, mergeFiles rejects with an error
\* naming that input, nothing is processed or reported afterwards, the finalize
\* event and the serialization never happen and no bytes are returned.
C2_FailureAborts ==
    /\ \A x \in LogIdx :
         (log[x].op \in {"load", "processImage"} /\ ~log[x].ok) =>
             x < Len(log) /\ log[x + 1].op = "console.error"
    /\ \A x \in LogIdx :
         log[x].op = "console.error" =>
             /\ x = Len(log)
             /\ pc = "failed"
             /\ result.kind = "error"
             /\ result.name = files[log[x].input + 1].name
             /\ \A y \in LogIdx :
                    /\ log[y].input <= log[x].input
                    /\ log[y].op # "save"
                    /\ ~IsFinalize(log[y])

\* C2 witness: the second input fails after the first one added its pages
C2_Witness ==
    /\ pc = "failed" /\ result.kind = "error" /\ result.name # ""
    /\ i = 1 /\ Len(mergedPdf) >= 1

\* C3: every input that was processed contributed one or more pages; a
\* page-less input is an error, never a silent skip.
C3_NoPagelessInput ==
    \A k \in 0..(i - 1) : PagesFrom(mergedPdf, k) # {}

\* C4: one progress event per input, in index order, naming the file, with
\* percent round((i+1)/n*100), before any processing of that input; then one
\* finalize event at 100, and only then the serialization.
C4_ProgressProtocol ==
    LET n == Len(files)
        P == SelectSeq(log, IsProcessing)
        F == {x \in LogIdx : IsFinalize(log[x])}
        inBody == pc \in {"try", "embed", "retryJpg", "retryPng"}
                  \/ (pc = "failed" /\ result.name # "")
    IN  /\ \A k \in 1..Len(P) :
               /\ P[k].input = k - 1
               /\ P[k].number = k
               /\ P[k].name = files[k].name
               /\ 2 * n * P[k].percent <= 200 * k + n
               /\ 2 * n * P[k].percent > 200 * k - n
        /\ Len(P) = IF inBody THEN i + 1 ELSE i
        /\ \A x \in LogIdx :
               log[x].op \in {"load", "processImage", "embed", "console.error"} =>
                   \E y \in 1..(x - 1) : IsProcessing(log[y]) /\ log[y].input = log[x].input
        /\ Cardinality(F) <= 1
        /\ \A x \in F :
               /\ log[x].percent = 100
               /\ Len(P) = n /\ i = n
               /\ \A y \in LogIdx : y > x => (log[y].op = "save" /\ y = x + 1)
        /\ \A x \in LogIdx : log[x].op = "save" => (x = Len(log) /\ (x - 1) \in F)
        /\ pc = "done" => (F # {} /\ log[Len(log)].op = "save" /\ result.kind = "bytes")

\* C4 witness: two inputs merged, the first one reported at 50 percent
C4_Witness ==
    /\ pc = "done" /\ Len(files) = 2
    /\ \E x \in LogIdx : IsProcessing(log[x]) /\ log[x].input = 0 /\ log[x].percent = 50

Phase ==
    CASE pc = "idle" -> "Idle"
      [] pc \in {"loop", "try", "embed", "retryJpg", "retryPng"} -> "Running"
      [] pc = "save" -> "Finalizing"
      [] pc = "done" -> "Done"
      [] pc = "failed" -> "Failed"
      [] OTHER -> "Off"

PhaseSteps ==
    {<<"Idle", "Running">>, <<"Running", "Running">>, <<"Running", "Finalizing">>,
     <<"Running", "Failed">>, <<"Finalizing", "Done">>, <<"Finalizing", "Failed">>}

\* input k went through the loop body without an exception
Succeeded(k) ==
    /\ \E x \in LogIdx : IsProcessing(log[x]) /\ log[x].input = k
    /\ \E x \in LogIdx : log[x].op \in {"load", "embed"} /\ log[x].input = k /\ log[x].ok
    /\ \A x \in LogIdx : log[x].op = "console.error" => log[x].input # k

C5_PhaseInvariant ==
    /\ Phase = "Finalizing" => (i = Len(files) /\ \A k \in 0..(Len(files) - 1) : Succeeded(k))
    /\ (result.kind = "bytes") <=> (Phase = "Done")
    /\ (result.kind = "error") <=> (Phase = "Failed")
    /\ \A k \in 0..(Len(files) - 1) :
           Cardinality({x \in LogIdx : IsProcessing(log[x]) /\ log[x].input = k}) <= 1

\* C5: one invocation moves Idle -> Running -> Finalizing -> Done | Failed;
\* Finalizing only after all inputs succeeded, Done and Failed are terminal and
\* exclusive, and every input index is visited at most once.
C5_StateMachine ==
    /\ [](C5_PhaseInvariant)
    /\ [][pc \notin {"done", "failed"} /\ <<Phase, Phase'>> \in PhaseSteps]_vars

\* C5 witness: the run reached Done through Finalizing with every input visited
C5_Witness ==
    /\ Phase = "Done" /\ Len(files) >= 2
    /\ \A k \in 0..(Len(files) - 1) : Succeeded(k)

EmbedsOf(k) == SelectSeq(log, LAMBDA e : e.op = "embed" /\ e.input = k)

\* C6: a failed embed is retried exactly once, with the opposite codec: at most
\* two embed attempts per input and never the same codec twice.
C6_OneOppositeRetry ==
    \A k \in 0..(Len(files) - 1) :
        LET E == EmbedsOf(k) IN
        /\ Len(E) <= 2
        /\ Len(E) = 2 => (~E[1].ok /\ E[1].codec # E[2].codec)

\* C10: on the general path the codec is chosen by the policy alone (high ->
\* JPEG 0.5, normal -> JPEG 0.75, none -> PNG), isPng is the codec requested,
\* and the first embed uses that codec.
C10_CodecByPolicy ==
    \A x \in LogIdx :
        log[x].op = "processImage" =>
            LET r == log[x].out IN
            /\ (r.path = "general" /\ r.mime # "") =>
                   /\ compressionLevel = "high" => (r.mime = "image/jpeg" /\ r.quality = 50)
                   /\ compressionLevel = "normal" => (r.mime = "image/jpeg" /\ r.quality = 75)
                   /\ compressionLevel = "none" => r.mime = "image/png"
            /\ (r.path = "general" /\ r.ok) =>
                   /\ r.isPng = (r.mime = "image/png")
                   /\ HasPrefix(r.data, IF r.isPng THEN PNG_SIG ELSE JPG_SIG)
            /\ (r.ok /\ compressionLevel \in {"normal", "high"}) => ~r.isPng
            /\ (r.ok /\ compressionLevel = "none"
                     /\ ~HasPrefix(log[x].arg.bytes, PNG_SIG)
                     /\ ~HasPrefix(log[x].arg.bytes, JPG_SIG)) => r.isPng
            /\ (r.ok /\ x < Len(log)) =>
                   /\ log[x + 1].op = "embed"
                   /\ log[x + 1].codec = IF r.isPng THEN "png" ELSE "jpg"

\* C10 witness: a WebP upload under level none was re-encoded and embedded as PNG
C10_Witness ==
    /\ compressionLevel = "none"
    /\ \E x \in LogIdx :
           /\ log[x].op = "processImage" /\ log[x].ok
           /\ HasPrefix(log[x].arg.bytes, RIFF_SIG)
           /\ log[x].out.isPng
           /\ x < Len(log) /\ log[x + 1].op = "embed" /\ log[x + 1].codec = "png"

------------------------------------------------------------------------------
(* Properties of detectImageType and processImage *)

\* C8: png iff at least 4 bytes starting 89 50 4E 47, jpg iff at least 4 bytes
\* starting FF D8, unknown otherwise (every input under 4 bytes); a value is
\* always returned.
C8_SnifferRule ==
    sResult # "pending" =>
        /\ sResult \in {"png", "jpg", "unknown"}
        /\ (sResult = "png") <=> (Len(sBytes) >= 4 /\ SubSeq(sBytes, 1, 4) = <<137, 80, 78, 71>>)
        /\ (sResult = "jpg") <=> (Len(sBytes) >= 4 /\ SubSeq(sBytes, 1, 2) = <<255, 216>>)
        /\ Len(sBytes) < 4 => sResult = "unknown"

\* C8 witness: an input of fewer than 4 bytes that starts FF D8 is unknown
C8_Witness ==
    sResult = "unknown" /\ Len(sBytes) \in {2, 3} /\ SubSeq(sBytes, 1, 2) = <<255, 216>>

SniffedKnown(bytes) ==
    Len(bytes) >= 4 /\ (SubSeq(bytes, 1, 4) = PNG_SIG \/ SubSeq(bytes, 1, 2) = JPG_SIG)

\* C7: the fast path (input bytes returned unchanged with the sniffed codec, no
\* decode, no re-encode) is taken iff the level is none, the input is the
\* uploaded File and it sniffs as png or jpeg; otherwise the general path.
C7_FastPathIff ==
    pOut # <<>> =>
        LET r == pOut[1] IN
        /\ (r.path = "fast") <=> (pLevel = "none" /\ pIn.isFile /\ SniffedKnown(pIn.bytes))
        /\ r.path = "fast" =>
               /\ r.ok /\ r.data = pIn.bytes
               /\ r.isPng = (SubSeq(pIn.bytes, 1, 4) = PNG_SIG)
               /\ r.mime = "" /\ r.canvasW = -1 /\ r.canvasH = -1
        /\ r.path # "fast" =>
               /\ r.path = "general"
               /\ r.ok => (r.mime # "" /\ r.canvasW >= 1 /\ r.canvasH >= 1)

\* C7 witness: a PNG upload under level none came back unchanged
C7_Witness ==
    /\ pOut # <<>> /\ pOut[1].path = "fast" /\ pOut[1].isPng
    /\ pLevel = "none" /\ pIn.isFile /\ pOut[1].data = pIn.bytes

\* C9: on the general path no canvas edge exceeds 1500 under high or 2500 under
\* normal, none keeps the size, an image within the cap keeps its size, and a
\* resized image has its longer edge at the cap and its shorter edge scaled by
\* the same ratio (to within one pixel below), the square image included.
C9_ResizeCap ==
    (pOut # <<>> /\ pOut[1].path = "general" /\ pOut[1].canvasW >= 0) =>
        LET w == ImageDecode(pIn.bytes).w
            h == ImageDecode(pIn.bytes).h
            cw == pOut[1].canvasW
            ch == pOut[1].canvasH
            cap == IF pLevel = "high" THEN 1500 ELSE 2500
        IN  IF pLevel = "none" \/ (w <= cap /\ h <= cap)
            THEN cw = w /\ ch = h
            ELSE /\ cw <= cap /\ ch <= cap
                 /\ w >= h => (cw = cap /\ ch * w <= cap * h /\ cap * h <= (ch + 1) * w)
                 /\ h >= w => (ch = cap /\ cw * h <= cap * w /\ cap * w <= (cw + 1) * h)

\* C9 witness: 4000 x 2000 under high became 1500 x 750
C9_Witness ==
    /\ pOut # <<>> /\ pOut[1].ok /\ pLevel = "high"
    /\ ImageDecode(pIn.bytes).w = 4000 /\ ImageDecode(pIn.bytes).h = 2000
    /\ pOut[1].canvasW = 1500 /\ pOut[1].canvasH = 750

------------------------------------------------------------------------------
(* Specification SpecApp: the App component of src/App.tsx.                *)
(*                                                                         *)
(* Each action is one event-loop task: a handler up to its first await, or  *)
(* the continuation of an await.  React state is taken as committed at the  *)
(* end of the task; the [files] effect runs as a task of its own.  The     *)
(* mergeFiles call of handleMerge is followed through its awaits only (the  *)
(* specification Spec has its inner steps): what it does to the App is its  *)
(* onProgress calls and the way it settles.                                 *)

\* the files a user can select, by what processFile makes of them
UploadKinds == {"pdf", "png", "docx", "xlsx", "heic"}

\* processFile: the UploadedFile built for one selected file.  convertedBlob
\* and previewUrl are 0 when absent, else the number of the blob / object URL
\* made for this file
processFile(kind) ==
    [kind |-> kind,
     type |-> CASE kind = "pdf" -> "pdf"
                [] kind = "docx" -> "docx"
                [] kind = "xlsx" -> "xlsx"
                [] OTHER -> "image",
     isConverting |-> kind \in {"docx", "xlsx", "heic"},
     convertedBlob |-> 0,
     previewUrl |-> IF kind = "png" THEN 1 ELSE 0]

Selections == UNION {[1..n -> UploadKinds] : n \in 1..MaxUploads}

\* files.filter(f => f.isConverting).length
ConvertingIn(list, objs) == {k \in 1..Len(list) : objs[list[k]].isConverting}

\* the next index from `from` on that processConversions converts, 0 if none:
\* if (f.isConverting && !f.convertedBlob)
NextToConvert(list, from, objs) ==
    LET todo == {k \in from..Len(list) :
                    objs[list[k]].isConverting /\ objs[list[k]].convertedBlob = 0}
    IN  IF todo = {} THEN 0 ELSE CHOOSE k \in todo : \A m \in todo : k <= m

\* a processConversions call that returned (it holds on to nothing)
FinishedRun == [fileList |-> <<>>, i |-> 0, pc |-> "done"]

\* the for loop of processConversions from index `from` up to its next await
RunFrom(run, from, objs) ==
    LET k == NextToConvert(run.fileList, from, objs)
    IN  IF k = 0 THEN FinishedRun
                 ELSE [run EXCEPT !.pc = "await", !.i = k]

InitApp ==
    /\ AppMounted /\ FileListMounted /\ HistoryIdle
    /\ SniffIdle /\ ImageIdle /\ MergeIdle

\* Reset output: setDownloadUrl(null); setMergedBlob(null)
ResetOutput == downloadUrl' = <<>> /\ mergedBlob' = <<>>

\* handleFilesSelected(newFiles): processFile each, append, schedule
\* processConversions(updated) by setTimeout, reset the output
handleFilesSelected(newFiles) ==
    /\ Len(objects) + Len(newFiles) <= MaxUploads
    /\ LET processedFiles == [k \in 1..Len(newFiles) |-> processFile(newFiles[k])]
           updated == appFiles \o [k \in 1..Len(newFiles) |-> Len(objects) + k]
       IN  /\ objects' = objects \o processedFiles
           /\ appFiles' = updated
           /\ runs' = Append(runs, [fileList |-> updated, i |-> 0, pc |-> "timer"])
    /\ ResetOutput
    /\ effectPending' = TRUE
    /\ UNCHANGED <<status, convertingCount, merge, lastCall,
                   sniffVars, imageVars, mergeVars,
                   orphaned, fileListVars, historyVars>>

\* useEffect(() => setConvertingCount(files.filter(...).length), [files])
Effect ==
    /\ effectPending
    /\ convertingCount' = Cardinality(ConvertingIn(appFiles, objects))
    /\ effectPending' = FALSE
    /\ UNCHANGED <<appFiles, objects, status, downloadUrl, mergedBlob, runs, merge, lastCall,
                   sniffVars, imageVars, mergeVars,
                   orphaned, fileListVars, historyVars>>

\* the timer of handleFilesSelected fires: processConversions(fileList) runs
\* up to its first await
StartConversions(r) ==
    /\ runs[r].pc = "timer"
    /\ runs' = [runs EXCEPT ![r] = RunFrom(runs[r], 1, objects)]
    /\ UNCHANGED <<appFiles, objects, status, downloadUrl, mergedBlob, convertingCount,
                   effectPending, merge, lastCall,
                   sniffVars, imageVars, mergeVars,
                   orphaned, fileListVars, historyVars>>

\* prev.map with an entry added when no id matches
ReplaceById_Upsert(prev, id) ==
    IF \E k \in 1..Len(prev) : prev[k] = id THEN prev ELSE Append(prev, id)

\* prev.map(item => item.id === f.id ? f : item): files holds the ids, and f
\* is the object the matching entry already refers to
ReplaceById(prev, id) == [k \in 1..Len(prev) |-> IF prev[k] = id THEN id ELSE prev[k]]

\* the awaited converter resolved with a blob: f.convertedBlob, f.previewUrl
\* and f.isConverting are written and setFiles(prev => prev.map(...)) follows
ConversionDone(r) ==
    /\ runs[r].pc = "await"
    /\ LET id == runs[r].fileList[runs[r].i]
           f == objects[id]
           objs == [objects EXCEPT ![id] = [f EXCEPT !.convertedBlob = f.convertedBlob + 1,
                                                     !.previewUrl = f.previewUrl + 1,
                                                     !.isConverting = FALSE]]
       IN  /\ objects' = objs
           /\ runs' = [runs EXCEPT ![r] = RunFrom(runs[r], runs[r].i + 1, objs)]
           /\ appFiles' = ReplaceById(appFiles, id)
           /\ orphaned' = IF \E k \in 1..Len(appFiles) : appFiles[k] = id THEN orphaned ELSE id
    /\ effectPending' = TRUE
    /\ UNCHANGED <<status, downloadUrl, mergedBlob, convertingCount, merge, lastCall,
                   sniffVars, imageVars, mergeVars,
                   fileListVars, historyVars>>

\* the awaited converter threw.  docx / xlsx: the outer catch sets
\* f.isConverting = false and calls no setter; heic: the inner catch logs the
\* error, blob stays null and nothing is written
ConversionFailed(r) ==
    /\ runs[r].pc = "await"
    /\ LET id == runs[r].fileList[runs[r].i]
           f == objects[id]
           objs == IF f.type \in {"docx", "xlsx"}
                   THEN [objects EXCEPT ![id] = [f EXCEPT !.isConverting = FALSE]]
                   ELSE objects
       IN  /\ objects' = objs
           /\ runs' = [runs EXCEPT ![r] = RunFrom(runs[r], runs[r].i + 1, objs)]
    /\ UNCHANGED <<appFiles, status, downloadUrl, mergedBlob, convertingCount,
                   effectPending, merge, lastCall,
                   sniffVars, imageVars, mergeVars,
                   orphaned, fileListVars, historyVars>>

\* handleRemoveFile(id)
handleRemoveFile(id) ==
    /\ appFiles' = SelectSeq(appFiles, LAMBDA x : x # id)
    /\ ResetOutput
    /\ effectPending' = TRUE
    /\ UNCHANGED <<objects, status, convertingCount, runs, merge, lastCall,
                   sniffVars, imageVars, mergeVars,
                   orphaned, fileListVars, historyVars>>

\* handleClearAll with window.confirm answered yes
handleClearAll ==
    /\ appFiles' = <<>>
    /\ ResetOutput
    /\ status' = [isProcessing |-> FALSE, message |-> "", progress |-> 0]
    /\ effectPending' = TRUE
    /\ UNCHANGED <<objects, convertingCount, runs, merge, lastCall,
                   sniffVars, imageVars, mergeVars,
                   orphaned, fileListVars, historyVars>>

\* the entries at fromIndex and toIndex exchanged
Spliced_Swap(list, fromIndex, toIndex) ==
    [k \in 1..Len(list) |->
        IF k = fromIndex + 1 THEN list[toIndex + 1]
        ELSE IF k = toIndex + 1 THEN list[fromIndex + 1]
        ELSE list[k]]

\* result.splice(fromIndex, 1) then result.splice(toIndex, 0, removed), 0-based
Spliced(list, fromIndex, toIndex) ==
    LET removed == list[fromIndex + 1]
        rest == [k \in 1..(Len(list) - 1) |-> IF k <= fromIndex THEN list[k] ELSE list[k + 1]]
    IN  [k \in 1..Len(list) |->
            IF k <= toIndex THEN rest[k]
            ELSE IF k = toIndex + 1 THEN removed
            ELSE rest[k - 1]]

\* handleReorder(fromIndex, toIndex)
handleReorder(fromIndex, toIndex) ==
    /\ appFiles' = Spliced(appFiles, fromIndex, toIndex)
    /\ ResetOutput
    /\ effectPending' = TRUE
    /\ UNCHANGED <<objects, status, convertingCount, runs, merge, lastCall,
                   sniffVars, imageVars, mergeVars,
                   orphaned, historyVars>>

\* the early returns of handleMerge without the isConverting test
MergeRefused_EmptyOnly(list, objs) == Len(list) = 0

\* the early returns of handleMerge:
\* files.length === 0, files.some(f => f.isConverting)
MergeRefused(list, objs) == Len(list) = 0 \/ ConvertingIn(list, objs) # {}

\* the merge button: rendered when files.length > 0 && !downloadUrl, disabled
\* when files.length === 0 || convertingCount > 0.  One handleMerge call is
\* followed at a time (the button shows isLoading while status.isProcessing)
MergeButtonEnabled ==
    /\ Len(appFiles) > 0 /\ downloadUrl = <<>>
    /\ convertingCount = 0
    /\ merge.pc = "idle"

\* handleMerge up to the first await of mergeFiles (PDFDocument.create())
handleMerge ==
    /\ MergeButtonEnabled
    /\ IF MergeRefused(appFiles, objects)
       THEN UNCHANGED <<status, downloadUrl, mergedBlob, merge>>
       ELSE /\ status' = [isProcessing |-> TRUE, message |-> "init", progress |-> 0]
            /\ ResetOutput
            /\ merge' = [pc |-> "create", fileList |-> appFiles,
                         snapshot |-> [k \in 1..Len(appFiles) |-> objects[appFiles[k]]],
                         i |-> 0, outcome |-> "none"]
    /\ lastCall' = [outcome |-> IF merge' # merge THEN "invoked" ELSE "returned",
                    empty |-> Len(appFiles) = 0,
                    converting |-> ConvertingIn(appFiles, objects) # {},
                    changed |-> <<status, downloadUrl, mergedBlob>>' #
                                <<status, downloadUrl, mergedBlob>>]
    /\ UNCHANGED <<appFiles, objects, convertingCount, effectPending, runs,
                   sniffVars, imageVars, mergeVars,
                   orphaned, fileListVars, historyVars>>

\* onProgress of mergeFiles as handleMerge passes it:
\* setStatus({ isProcessing: true, message: msg, progress })
OnProgress(idx, totalFiles) ==
    IF LoopTest(idx, totalFiles)
    THEN [isProcessing |-> TRUE, message |-> "processing", progress |-> Progress(idx, totalFiles)]
    ELSE [isProcessing |-> TRUE, message |-> "finalize", progress |-> 100]

\* mergeFiles from one await to the next: the loop test, onProgress, and the
\* start of the next input or of save()
MergeAdvance(idx) ==
    /\ status' = OnProgress(idx, Len(merge.fileList))
    /\ merge' = [merge EXCEPT !.i = idx,
                              !.pc = IF LoopTest(idx, Len(merge.fileList)) THEN "input" ELSE "save"]
    /\ UNCHANGED <<appFiles, objects, downloadUrl, mergedBlob, convertingCount,
                   effectPending, runs, lastCall,
                   sniffVars, imageVars, mergeVars,
                   orphaned, fileListVars, historyVars>>

\* PDFDocument.create() resolved
MergeCreated ==
    /\ merge.pc = "create"
    /\ MergeAdvance(0)

\* the awaits of one loop iteration resolved: i++
MergeInputDone ==
    /\ merge.pc = "input"
    /\ MergeAdvance(merge.i + 1)

\* the catch block of handleMerge
MergeRejected ==
    /\ status' = [isProcessing |-> FALSE, message |-> "failed", progress |-> 0]
    /\ merge' = [NoMerge EXCEPT !.outcome = "failed"]
    /\ UNCHANGED <<appFiles, objects, downloadUrl, mergedBlob, convertingCount,
                   effectPending, runs, lastCall,
                   sniffVars, imageVars, mergeVars,
                   orphaned, fileListVars, historyVars>>

\* an input of mergeFiles failed
MergeInputFailed ==
    /\ merge.pc = "input"
    /\ MergeRejected

\* save() threw
MergeSaveFailed ==
    /\ merge.pc = "save"
    /\ MergeRejected

\* mergeFiles resolved: setMergedBlob, setDownloadUrl, setStatus (the
\* addHistoryItem call made here is followed in SpecHistory)
MergeResolved ==
    /\ merge.pc = "save"
    /\ mergedBlob' = <<merge.fileList>>
    /\ downloadUrl' = <<merge.fileList>>
    /\ status' = [isProcessing |-> FALSE, message |-> "success", progress |-> 100]
    /\ merge' = [NoMerge EXCEPT !.outcome = "success"]
    /\ UNCHANGED <<appFiles, objects, convertingCount, effectPending, runs, lastCall,
                   sniffVars, imageVars, mergeVars,
                   orphaned, fileListVars, historyVars>>

NextApp ==
    \/ \E newFiles \in Selections : handleFilesSelected(newFiles)
    \/ Effect
    \/ \E r \in 1..Len(runs) : StartConversions(r)
    \/ \E r \in 1..Len(runs) : ConversionDone(r)
    \/ \E r \in 1..Len(runs) : ConversionFailed(r)
    \/ \E k \in 1..Len(appFiles) : handleRemoveFile(appFiles[k])
    \/ handleClearAll
    \/ \E a \in 0..(Len(appFiles) - 1), b \in 0..(Len(appFiles) - 1) :
          a # b /\ handleReorder(a, b) /\ UNCHANGED fileListVars
    \/ handleMerge
    \/ MergeCreated
    \/ MergeInputDone
    \/ MergeInputFailed
    \/ MergeSaveFailed
    \/ MergeResolved

SpecApp == InitApp /\ [][NextApp]_vars

\* Every scheduled timer fires, every awaited conversion call returns or
\* throws, and React runs the pending effect; the user's actions and the
\* merge are under no obligation.
ConversionsFair ==
    /\ \A r \in 1..MaxUploads :
          /\ WF_vars(r <= Len(runs) /\ StartConversions(r))
          /\ WF_vars(r <= Len(runs) /\ (ConversionDone(r) \/ ConversionFailed(r)))
    /\ WF_vars(Effect)

SpecAppFair == InitApp /\ [][NextApp]_vars /\ ConversionsFair

------------------------------------------------------------------------------
(* Specification SpecHistory: the history service (historyService.ts 1-39)  *)
(* on a localStorage that holds what earlier calls of the service stored.   *)
(* An item is its id; JSON.stringify followed by JSON.parse gives back the  *)
(* strings, finite numbers and string arrays a HistoryItem is made of, so   *)
(* the stored value is kept as the list of items itself.                    *)

\* const MAX_HISTORY_ITEMS = 50
MAX_HISTORY_ITEMS == 50

\* array.slice(0, n)
Slice0(array, n) == SubSeq(array, 1, IF n < Len(array) THEN n ELSE Len(array))

\* getHistory(): json ? JSON.parse(json) : []
getHistory(store) == IF store = <<>> THEN <<>> ELSE store[1]

\* [item, ...current] without the slice
Updated_NoSlice(item, current) == <<item>> \o current

\* [item, ...current].slice(0, MAX_HISTORY_ITEMS)
Updated(item, current) == Slice0(<<item>> \o current, MAX_HISTORY_ITEMS)

\* current.filter(item => item.id !== id)
Without(current, id) == SelectSeq(current, LAMBDA item : item.id # id)

\* what k calls of addHistoryItem leave in an empty storage: ids k down to 1
StoredAfter(k) == [j \in 1..k |-> [id |-> k + 1 - j]]

\* the ids deleteHistoryItem is called with: the newest, the oldest and the
\* middle item stored, and an id that is not stored
DeleteChoices(current) ==
    {0} \cup (IF current = <<>> THEN {}
              ELSE {current[1].id, current[Len(current)].id,
                    current[(Len(current) + 1) \div 2].id})

InitHistory ==
    /\ \E k \in 0..MAX_HISTORY_ITEMS :
          /\ clock = k
          /\ storage = IF k = 0 THEN <<>> ELSE <<StoredAfter(k)>>
    /\ historyCalls = 0
    /\ lastHistoryCall = [op |-> "none"]
    /\ SniffIdle /\ ImageIdle /\ MergeIdle /\ AppMounted /\ FileListMounted

\* addHistoryItem(item) with item.id = Date.now().toString(); setItemOk is
\* whether localStorage.setItem returns (it throws when the quota is exceeded)
addHistoryItem(setItemOk) ==
    /\ historyCalls < MaxHistoryCalls
    /\ LET item == [id |-> clock + 1]
           current == getHistory(storage)
           updated == Updated(item, current)
       IN  /\ storage' = IF setItemOk THEN <<updated>> ELSE storage
           /\ lastHistoryCall' = [op |-> "add", item |-> item, before |-> current,
                                  stored |-> setItemOk,
                                  returned |-> IF setItemOk THEN updated ELSE <<>>]
    /\ clock' = clock + 1
    /\ historyCalls' = historyCalls + 1
    /\ UNCHANGED <<sniffVars, imageVars, mergeVars, appVars, fileListVars>>

\* deleteHistoryItem(id): no try block, an exception of setItem propagates
deleteHistoryItem(id, setItemOk) ==
    /\ historyCalls < MaxHistoryCalls
    /\ LET current == getHistory(storage)
           updated == Without(current, id)
       IN  /\ storage' = IF setItemOk THEN <<updated>> ELSE storage
           /\ lastHistoryCall' = [op |-> "delete", item |-> [id |-> id], before |-> current,
                                  stored |-> setItemOk,
                                  returned |-> IF setItemOk THEN updated ELSE <<>>]
    /\ historyCalls' = historyCalls + 1
    /\ UNCHANGED <<clock, sniffVars, imageVars, mergeVars, appVars, fileListVars>>

\* clearHistory(): localStorage.removeItem(STORAGE_KEY)
clearHistory ==
    /\ historyCalls < MaxHistoryCalls
    /\ storage' = <<>>
    /\ lastHistoryCall' = [op |-> "clear", item |-> [id |-> 0], before |-> getHistory(storage),
                           stored |-> TRUE, returned |-> <<>>]
    /\ historyCalls' = historyCalls + 1
    /\ UNCHANGED <<clock, sniffVars, imageVars, mergeVars, appVars, fileListVars>>

NextHistory ==
    \/ \E setItemOk \in BOOLEAN : addHistoryItem(setItemOk)
    \/ \E id \in DeleteChoices(getHistory(storage)), setItemOk \in BOOLEAN :
          deleteHistoryItem(id, setItemOk)
    \/ clearHistory

SpecHistory == InitHistory /\ [][NextHistory]_vars

\* C21: the stored history never has more than 50 items; after an
\* addHistoryItem that stored its list, the list stored is the list returned,
\* its first item is the new one, the items after it are the items stored
\* before in the same order, and only the last (oldest) of them is missing
\* when there were 50.
C21_HistoryCap ==
    /\ Len(getHistory(storage)) <= 50
    /\ (lastHistoryCall.op = "add" /\ lastHistoryCall.stored) =>
          LET b == lastHistoryCall.before
              r == lastHistoryCall.returned
          IN  /\ getHistory(storage) = r
              /\ r[1] = lastHistoryCall.item
              /\ Len(r) = IF Len(b) < 50 THEN Len(b) + 1 ELSE 50
              /\ \A j \in 2..Len(r) : r[j] = b[j - 1]

\* C21 witness: an item was added to a full history: it is first, the former
\* 49 newest follow, the oldest is gone
C21_Witness ==
    /\ lastHistoryCall.op = "add" /\ lastHistoryCall.stored
    /\ Len(lastHistoryCall.before) = 50
    /\ Len(getHistory(storage)) = 50
    /\ getHistory(storage)[1] = lastHistoryCall.item
    /\ getHistory(storage)[50] = lastHistoryCall.before[49]
    /\ \A j \in 1..50 : getHistory(storage)[j] # lastHistoryCall.before[50]

------------------------------------------------------------------------------
(* Specification SpecReorder: the reorders FileList issues (arrow buttons   *)
(* and drag events of src/components/FileList.tsx) on a list of files that  *)
(* are all uploaded and need no conversion.                                 *)

\* the App after one selection of n PDF files, conversions run through
InitReorder ==
    /\ \E n \in 0..MaxList :
          /\ appFiles = [k \in 1..n |-> k]
          /\ objects = [k \in 1..n |-> processFile("pdf")]
          /\ runs = IF n = 0 THEN <<>> ELSE <<FinishedRun>>
    /\ status = [isProcessing |-> FALSE, message |-> "", progress |-> 0]
    /\ downloadUrl = <<>> /\ mergedBlob = <<>>
    /\ convertingCount = 0 /\ effectPending = FALSE
    /\ merge = NoMerge
    /\ lastCall = [outcome |-> "none", empty |-> FALSE, converting |-> FALSE, changed |-> FALSE]
    /\ orphaned = 0
    /\ FileListMounted
    /\ SniffIdle /\ ImageIdle /\ MergeIdle /\ HistoryIdle

\* onReorder(dragIndex, hoverIndex) as FileList calls it: App's handleReorder
onReorder(dragIndex, hoverIndex) ==
    /\ handleReorder(dragIndex, hoverIndex)
    /\ lastReorder' = [before |-> appFiles, fromIndex |-> dragIndex, toIndex |-> hoverIndex]

\* handleDragStart(index)
handleDragStart(index) ==
    /\ draggedItemIndex' = index
    /\ UNCHANGED <<lastReorder, appVars, sniffVars, imageVars, mergeVars, historyVars>>

\* handleDragOver(e, index): returns when nothing is dragged or the dragged
\* item is the one under the pointer
handleDragOver(index) ==
    /\ draggedItemIndex # -1
    /\ draggedItemIndex # index
    /\ onReorder(draggedItemIndex, index)
    /\ draggedItemIndex' = index

\* handleDragEnd()
handleDragEnd ==
    /\ draggedItemIndex # -1
    /\ draggedItemIndex' = -1
    /\ UNCHANGED <<lastReorder, appVars, sniffVars, imageVars, mergeVars, historyVars>>

\* the arrow-up button of row index: index > 0 && onReorder(index, index - 1)
ArrowUp(index) ==
    /\ index > 0
    /\ onReorder(index, index - 1)
    /\ UNCHANGED draggedItemIndex

\* the arrow-down button: index < files.length - 1 && onReorder(index, index + 1)
ArrowDown(index) ==
    /\ index < Len(appFiles) - 1
    /\ onReorder(index, index + 1)
    /\ UNCHANGED draggedItemIndex

NextReorder ==
    \/ \E index \in 0..(Len(appFiles) - 1) : handleDragStart(index)
    \/ \E index \in 0..(Len(appFiles) - 1) : handleDragOver(index)
    \/ handleDragEnd
    \/ \E index \in 0..(Len(appFiles) - 1) : ArrowUp(index)
    \/ \E index \in 0..(Len(appFiles) - 1) : ArrowDown(index)
    \/ Effect

SpecReorder == InitReorder /\ [][NextReorder]_vars

\* list without its entry at the 0-based index
RemoveAt(list, index) ==
    [k \in 1..(Len(list) - 1) |-> IF k <= index THEN list[k] ELSE list[k + 1]]

\* after is before with the entry at fromIndex moved to toIndex: same length,
\* no entry twice, the moved entry at toIndex, the others in their order
IsMove(before, after, fromIndex, toIndex) ==
    /\ Len(after) = Len(before)
    /\ Cardinality({after[k] : k \in 1..Len(after)}) = Len(after)
    /\ {after[k] : k \in 1..Len(after)} = {before[k] : k \in 1..Len(before)}
    /\ after[toIndex + 1] = before[fromIndex + 1]
    /\ RemoveAt(after, toIndex) = RemoveAt(before, fromIndex)

\* C25: for every pair of indices within the list the reordered list is the
\* list with the entry at fromIndex moved to toIndex (a permutation, the other
\* entries in their order), and after every reorder FileList issued the file
\* list is that move of the list before it.
C25_ReorderIsMove ==
    /\ \A a \in 0..(Len(appFiles) - 1), b \in 0..(Len(appFiles) - 1) :
          IsMove(appFiles, Spliced(appFiles, a, b), a, b)
    /\ lastReorder.before # <<>> =>
          /\ lastReorder.fromIndex \in 0..(Len(lastReorder.before) - 1)
          /\ lastReorder.toIndex \in 0..(Len(lastReorder.before) - 1)
          /\ IsMove(lastReorder.before, appFiles, lastReorder.fromIndex, lastReorder.toIndex)

\* C25 witness: after earlier reorders, the first of four files was dragged
\* over the last row and is now last, the three others moved up in their order
C25_Witness ==
    /\ lastReorder.before = <<3, 1, 4, 2>>
    /\ lastReorder.fromIndex = 0 /\ lastReorder.toIndex = 3
    /\ appFiles = <<1, 4, 2, 3>>
    /\ draggedItemIndex = 3

------------------------------------------------------------------------------
(* Page geometry and dispatch of mergeFiles *)

\* C11: every page added for a PDF source page or for an image is 595.28 points
\* wide, its height is the quotient intrinsic_height * 595.28 / intrinsic_width
\* (so height / width = intrinsic_height / intrinsic_width), and its content is
\* drawn at (0,0) with exactly the width and height of the page.
C11_PageGeometry ==
    \A k \in 1..Len(mergedPdf) :
        LET p == mergedPdf[k]
        IN  p.kind \in {"pdf", "image"} =>
              /\ p.iw > 0 /\ p.ih > 0
              /\ p.width = 59528
              /\ p.height = [num |-> p.ih * 59528, den |-> p.iw]
              /\ p.height = [num |-> p.ih * p.width, den |-> p.iw]
              /\ p.draw = [x |-> 0, y |-> 0, width |-> p.width, height |-> p.height]

\* C11 witness: the 600 x 300 PNG became a page of 595.28 x 297.64 points, and
\* a PDF page was added too
C11_Witness ==
    /\ \E k \in 1..Len(mergedPdf) :
          /\ mergedPdf[k].kind = "image" /\ mergedPdf[k].iw = 600 /\ mergedPdf[k].ih = 300
          /\ mergedPdf[k].height.num = 29764 * mergedPdf[k].height.den
    /\ \E k \in 1..Len(mergedPdf) : mergedPdf[k].kind = "pdf"

\* the processImage calls made for input k
NormalizerCalls(k) == {x \in LogIdx : log[x].op = "processImage" /\ log[x].input = k}

\* the subsequence of doc that input k added
PagesOfInput(doc, k) == SelectSeq(doc, LAMBDA p : p.input = k)

\* C12: for an input of kind pdf, with or without convertedBlob and under every
\* level, processImage (and with it the sniffer) is never called, and once the
\* input is done the document holds exactly one page per source page, in source
\* page order, each with the size of its source page.
C12_PdfBypassesNormalizer ==
    \A k \in 0..(Len(files) - 1) :
        files[k + 1].type = "pdf" =>
            /\ NormalizerCalls(k) = {}
            /\ \A x \in LogIdx : log[x].input = k => log[x].op # "embed"
            /\ i > k =>
                 LET src == PDFLoad(files[k + 1].bytes).pages
                     out == PagesOfInput(mergedPdf, k)
                 IN  /\ Len(out) = Len(src)
                     /\ \A j \in 1..Len(out) :
                          /\ out[j].kind = "pdf" /\ out[j].srcPage = j
                          /\ out[j].iw = src[j].w /\ out[j].ih = src[j].h

\* C12 witness: a two-page PDF and a PDF that carries convertedBlob were both
\* merged under level high
C12_Witness ==
    /\ compressionLevel = "high" /\ Len(files) = 2 /\ i = 2
    /\ files[1].type = "pdf" /\ Len(PagesOfInput(mergedPdf, 0)) = 2
    /\ files[2].type = "pdf" /\ files[2].convertedBlob # <<>>
    /\ Len(PagesOfInput(mergedPdf, 1)) = 1

\* C13: every processImage call is made for a non-pdf input with convertedBlob
\* when the descriptor has one and with the uploaded file otherwise; a non-pdf
\* input that is done had exactly one such call and added exactly one page.
C13_ByteSourceAndOnePage ==
    /\ \A x \in LogIdx :
         log[x].op = "processImage" =>
            LET f == files[log[x].input + 1]
            IN  /\ f.type # "pdf"
                /\ log[x].arg = IF f.convertedBlob # <<>>
                                THEN [isFile |-> FALSE, bytes |-> f.convertedBlob[1]]
                                ELSE [isFile |-> TRUE, bytes |-> f.bytes]
    /\ \A k \in 0..(Len(files) - 1) :
         (files[k + 1].type # "pdf" /\ i > k) =>
            /\ Cardinality(NormalizerCalls(k)) = 1
            /\ Len(PagesOfInput(mergedPdf, k)) = 1
            /\ PagesOfInput(mergedPdf, k)[1].kind = "image"

\* C13 witness: a converted document gave its convertedBlob, an image its file,
\* and each added one page
C13_Witness ==
    /\ Len(files) = 2 /\ i = 2
    /\ files[1].type = "docx" /\ files[1].convertedBlob # <<>>
    /\ files[2].type = "image" /\ files[2].convertedBlob = <<>>
    /\ \E x \in NormalizerCalls(0) : ~log[x].arg.isFile
    /\ \E x \in NormalizerCalls(1) : log[x].arg.isFile
    /\ Len(mergedPdf) = 2

\* C15: under level none (as under every level) an input of kind docx or xlsx
\* that has no convertedBlob never adds a page, and mergeFiles does not get
\* past it.
C15_UnconvertedOfficeFails ==
    \A k \in 0..(Len(files) - 1) :
        (/\ compressionLevel = "none"
         /\ files[k + 1].type \in {"docx", "xlsx"}
         /\ files[k + 1].convertedBlob = <<>>) =>
            /\ PagesOfInput(mergedPdf, k) = <<>>
            /\ i <= k
            /\ pc # "done"

\* C17: every error mergeFiles rejects with for a list of at least one file
\* carries the name of an input of the list, the failure of the final save()
\* included.
C17_ErrorNamesInput ==
    (result.kind = "error" /\ Len(files) >= 1) =>
        \E k \in 1..Len(files) : result.name = files[k].name

------------------------------------------------------------------------------
(* Properties of the App component *)

MergeInFlight == merge.pc # "idle"

\* C14: in every mergeFiles call that handleMerge makes, each file of type
\* docx or xlsx in the list passed has convertedBlob, whatever additions,
\* removals, reorders, conversion completions and conversion failures came
\* before.
C14_OfficeFilesConverted ==
    MergeInFlight =>
        \A k \in 1..Len(merge.snapshot) :
            merge.snapshot[k].type \in {"docx", "xlsx"} =>
                merge.snapshot[k].convertedBlob # 0

\* C16: while a mergeFiles call is in flight every descriptor of the list it
\* was given has the field values it had when the call started.
C16_DescriptorsFrozen ==
    MergeInFlight =>
        \A k \in 1..Len(merge.fileList) :
            objects[merge.fileList[k]] = merge.snapshot[k]

\* C18: isProcessing is true for as long as a merge is in flight; the step
\* that ends a failed merge leaves isProcessing false, progress 0, the error
\* message, and downloadUrl and mergedBlob null; the step that ends a
\* successful merge leaves isProcessing false, progress 100 and downloadUrl
\* and mergedBlob set.
C18_MergeOutcome ==
    /\ [](MergeInFlight => status.isProcessing)
    /\ [][(MergeInFlight /\ ~MergeInFlight') =>
            /\ ~status'.isProcessing
            /\ merge'.outcome \in {"failed", "success"}
            /\ merge'.outcome = "failed" =>
                 /\ status'.progress = 0 /\ status'.message = "failed"
                 /\ downloadUrl' = <<>> /\ mergedBlob' = <<>>
            /\ merge'.outcome = "success" =>
                 /\ status'.progress = 100
                 /\ downloadUrl' # <<>> /\ mergedBlob' # <<>>]_vars

\* C19: a mergeFiles call in flight was started on a list that was not empty
\* and had no file with isConverting true; a handleMerge call that found the
\* list empty or a file converting returned without calling mergeFiles and
\* without changing status, downloadUrl or mergedBlob.
C19_MergeGuard ==
    /\ MergeInFlight =>
         /\ Len(merge.fileList) > 0
         /\ \A k \in 1..Len(merge.snapshot) : ~merge.snapshot[k].isConverting
    /\ (lastCall.empty \/ lastCall.converting) =>
         /\ lastCall.outcome = "returned"
         /\ ~lastCall.changed

\* C19 witness: handleMerge was called while a file was converting and
\* returned; no merge is in flight and status is as it was
C19_Witness ==
    /\ lastCall.outcome = "returned" /\ lastCall.converting
    /\ ~MergeInFlight
    /\ status = [isProcessing |-> FALSE, message |-> "", progress |-> 0]
    /\ ConvertingIn(appFiles, objects) # {}

\* C20: whenever downloadUrl or mergedBlob is set, both hold the document made
\* from the current file list in its current order.
C20_OutputMatchesList ==
    (downloadUrl # <<>> \/ mergedBlob # <<>>) =>
        (downloadUrl = <<appFiles>> /\ mergedBlob = <<appFiles>>)

InFiles(id) == \E k \in 1..Len(appFiles) : appFiles[k] = id

\* C22: a file that has isConverting true eventually has isConverting false,
\* or has been removed from the list, given that timers fire and conversion
\* calls return or throw.
C22_ConvertingEnds ==
    \A id \in 1..MaxUploads :
        (Len(objects) >= id /\ objects[id].isConverting)
            ~> (Len(objects) >= id /\ (~objects[id].isConverting \/ ~InFiles(id)))

\* the conversions in flight for file id
InFlight(id) ==
    {r \in 1..Len(runs) : runs[r].pc = "await" /\ runs[r].fileList[runs[r].i] = id}

\* C23: at most one conversion of a file is in flight at any time, and
\* convertedBlob is written at most once per file.
C23_ConvertedOnce ==
    \A id \in 1..Len(objects) :
        /\ Cardinality(InFlight(id)) <= 1
        /\ objects[id].convertedBlob <= 1

\* C24: the step in which a conversion call settles leaves the file list as it
\* was (same length, same order), and no step puts back a file that has left
\* the list.
C24_CompletionKeepsList ==
    /\ [][(\E r \in 1..Len(runs) : runs[r].pc = "await" /\ runs'[r] # runs[r])
            => appFiles' = appFiles]_vars
    /\ [][\A id \in 1..Len(objects) : InFiles(id)' => InFiles(id)]_vars

\* C24 witness: a conversion completed for a file that had been removed or
\* cleared while it was pending: it has its convertedBlob and is not in the list
C24_Witness ==
    /\ orphaned # 0
    /\ objects[orphaned].convertedBlob > 0
    /\ ~InFiles(orphaned)

====
